---- MODULE Spec2Model ----
(***************************************************************************)
(* A model of the API gateway of src/api_gateway/gateway/app.py: the       *)
(* API-key check, the sliding-window rate limiter, the response cache, the *)
(* forwarder and the admin routes.  One action handles one whole request;  *)
(* SpecWorkers instead follows the threads of the server line by line      *)
(* through rate_limit's with block and into requests.request.              *)
(*                                                                         *)
(* Time is int(time.time()) in whole seconds.  The cache is werkzeug's     *)
(* SimpleCache: set(k, v, timeout) stores (now + timeout, v) and get(k)    *)
(* returns v only while expires > now; entries are never removed by get.  *)
(* Its pruning threshold (500 entries) is far above the number of keys of  *)
(* this model and is not modelled.  hashlib.md5 over json.dumps of the key *)
(* parts is modelled as the tuple of the parts (no collisions).            *)
(***************************************************************************)
EXTENDS Integers, Sequences, FiniteSets, TLC

\* ------------------------------------------------------------- bounds
\* The clock runs from 0 to MaxTime.
MaxTime == 3

\* Config.RATE_LIMIT_WINDOW (60 in the source), scaled down.
RATE_LIMIT_WINDOW == 2

\* Config.RATE_LIMIT_MAX_REQUESTS (100 in the source), scaled down.
RATE_LIMIT_MAX_REQUESTS == 2

\* Config.CACHE_TIMEOUT (300 in the source), scaled down.
CACHE_TIMEOUT == 2

\* The lifetime of a password-reset token (3600 in the source), scaled down.
RESET_TOKEN_LIFETIME == 2

\* The number of reset tokens issued in a run.
MaxResetTokens == 2

\* MAX_HISTORY of the chat server (50 in the source), scaled down.
MAX_HISTORY == 1

\* ------------------------------------------------------ configuration
API_KEY == "test-api-key"

RATE_LIMIT_ENABLED == TRUE

CACHE_ENABLED == TRUE

\* The service registry: service name -> list of backend URLs.
SERVICES ==
  [ user_service    |-> <<"http://localhost:8001", "http://localhost:8002">>,
    product_service |-> <<"http://localhost:8011", "http://localhost:8012">>,
    order_service   |-> <<"http://localhost:8021", "http://localhost:8022">> ]

\* ------------------------------------------------- inputs of the model
\* request.headers.get('X-API-Key') when the header is absent.
NoHeader == "<no header>"

\* The values of the X-API-Key header a caller may send.
ApiKeys == {API_KEY, "wrong-key", NoHeader}

Methods == {"GET", "POST", "PUT", "PATCH", "DELETE"}

\* Service names a caller may ask for: one registered, one not.
RequestServices == {"user_service", "billing_service"}

RequestPaths == {"users"}

\* Raw query strings: the same two parameters in both orders.
QueryStrings == {"a=1&b=2", "b=2&a=1"}

\* Header maps: header name -> value.
NoHeaders == << >>

Header(name, value) == name :> value

\* The headers, other than X-API-Key, a caller may send: two callers with
\* their own Authorization, with headers outside every allow-list and with a
\* header whose value is empty.
RequestHeaders ==
  { NoHeaders,
    Header("Authorization", "Bearer alice") @@ Header("Accept", "text/html")
      @@ Header("Content-Type", "application/json") @@ Header("Cookie", "sid=1"),
    Header("Authorization", "Bearer bob") @@ Header("Accept-Language", "")
      @@ Header("Cookie", "sid=2") }

\* request.headers: the headers of a request, X-API-Key included.
inbound_headers(api_key, headers) ==
  IF api_key = NoHeader THEN headers ELSE Header("X-API-Key", api_key) @@ headers

\* request.headers.get(name) on a header map, "" standing for None.
HeaderValue(headers, name) ==
  IF name \in DOMAIN headers THEN headers[name] ELSE ""

\* The headers an upstream may answer with: some that are copied to the
\* caller and some that are not.
UpstreamHeaders ==
  Header("Content-Type", "application/json") @@ Header("ETag", "v1")
    @@ Header("Set-Cookie", "upstream=1") @@ Header("Server", "backend")

\* request.args: the parameters a raw query string parses to, as name-value
\* pairs.
query_params(query_string) ==
  CASE query_string = "a=1&b=2" -> {<<"a", "1">>, <<"b", "2">>}
    [] query_string = "b=2&a=1" -> {<<"b", "2">>, <<"a", "1">>}
    [] OTHER                    -> {}

\* JSON values, as json.loads returns them: a type, a number of members and,
\* to tell two non-empty payloads apart, an id.
JsonValue(type, members, id) == [type |-> type, members |-> members, id |-> id]

\* Python's None (cache.get on a miss or an expired entry).
None == JsonValue("None", 0, 0)

\* Bodies an upstream may answer with.
Bodies == {"{\"id\":1}", "{\"id\":2}", "{}", "<html>"}

\* A body that is not text: the first bytes of a PNG image, which are not
\* valid UTF-8.
PngBody == "<89 50 4E 47>"

\* What requests.request does: it returns a response (a status and a body) or
\* raises requests.RequestException (connection error, timeout).
AnswerWith(status, body, headers) ==
  [kind |-> "response", status |-> status, body |-> body, headers |-> headers]

\* An answer without headers.
Answer(status, body) == AnswerWith(status, body, NoHeaders)

RequestException == [kind |-> "exception", status |-> 0, body |-> ""]

\* No upstream call is made.
NoCall == [kind |-> "none", status |-> 0, body |-> ""]

UpstreamOutcomes ==
  {Answer(200, body) : body \in Bodies}
    \cup {Answer(500, "{\"id\":1}"), RequestException}

\* ------------------------------------------------------------ helpers
Min(s) == CHOOSE x \in {s[i] : i \in DOMAIN s} :
            \A y \in {s[i] : i \in DOMAIN s} : x <= y

\* json.loads on bytes decodes them first (UTF-8 unless a UTF-16 or UTF-32
\* byte pattern is detected): bytes that do not decode raise
\* UnicodeDecodeError, a ValueError that is no JSONDecodeError.
utf8_decodable(body) == body # PngBody

\* json.loads: the value of a body, or a JSONDecodeError.
json_decodable(body) == body \in {"{\"id\":1}", "{\"id\":2}", "{}", "[]"}

json_loads(body) ==
  CASE body = "{\"id\":1}" -> JsonValue("object", 1, 1)
    [] body = "{\"id\":2}" -> JsonValue("object", 1, 2)
    [] body = "{}"         -> JsonValue("object", 0, 0)
    [] body = "[]"         -> JsonValue("array", 0, 0)

\* Python truthiness of a cached value: None and empty containers are falsy.
Truthy(v) == v.type # "None" /\ v.members > 0

\* ---------------------------------------------------------- responses
\* What a view returns: the status, the JSON error envelope (error is "" when
\* the body is no envelope), the raw upstream body passed through (data), the
\* JSON value served by jsonify (payload), and whether the view returned a
\* (body, status) tuple instead of a Response object.
MakeResponse(status, error, has_message, data, payload, is_tuple) ==
  [status |-> status, error |-> error, has_message |-> has_message,
   data |-> data, payload |-> payload, is_tuple |-> is_tuple]

\* jsonify({...}), status: an error or message envelope returned as a tuple.
JsonifyTuple(error, has_message, status) ==
  MakeResponse(status, error, has_message, "", None, TRUE)

\* ------------------------------------------------------- require_api_key
\* require_api_key comparing the key only when the header is present.
require_api_key_if_present(api_key) == api_key = NoHeader \/ api_key = API_KEY

\* TRUE when the decorator lets the request through to the view.
require_api_key(api_key) == ~(api_key = NoHeader \/ api_key # API_KEY)

Unauthorized == JsonifyTuple("Invalid or missing API key", FALSE, 401)

\* ------------------------------------------------------------ rate_limit
\* request.headers.get('X-API-Key', request.remote_addr)
client_id_of(api_key, remote_addr) ==
  IF api_key = NoHeader THEN remote_addr ELSE api_key

\* PurgeWindow removing nothing.
PurgeWindowNever(timestamps, t) == timestamps

\* PurgeWindow keeping the timestamp that lies exactly one window back.
PurgeWindowInclusive(timestamps, t) ==
  SelectSeq(timestamps, LAMBDA ts : ts >= t - RATE_LIMIT_WINDOW)

\* The timestamps of a window that are still inside it at time t.
PurgeWindow(timestamps, t) ==
  SelectSeq(timestamps, LAMBDA ts : ts > t - RATE_LIMIT_WINDOW)

\* LimitExceeded letting one request too many through.
LimitExceededOffByOne(request_count) == request_count > RATE_LIMIT_MAX_REQUESTS

\* The limit check on the purged count.
LimitExceeded(request_count) == request_count >= RATE_LIMIT_MAX_REQUESTS

\* RetryAfter counting from the newest timestamp instead of the oldest.
RetryAfterNewest(purged, t) == RATE_LIMIT_WINDOW - (t - purged[Len(purged)])

\* The retry_after of a 429, from the purged window.
RetryAfter(purged, t) == RATE_LIMIT_WINDOW - (t - Min(purged))

\* RateLimitCheck leaving out the append of an allowed request.
RateLimitCheckUnrecorded(rl, client_id, t) ==
  LET purged == IF client_id \in DOMAIN rl THEN PurgeWindow(rl[client_id], t) ELSE <<>>
  IN  [allowed       |-> ~LimitExceeded(Len(purged)),
       request_count |-> Len(purged),
       retry_after   |-> IF ~LimitExceeded(Len(purged)) THEN 0
                         ELSE RetryAfter(purged, t),
       rate_limits   |-> [c \in DOMAIN rl \cup {client_id} |->
                            IF c = client_id THEN purged ELSE rl[c]]]

\* The section of rate_limit run under rate_limit_lock, for client_id at time
\* t on the windows rl: the purge, the count, the check and the append.
RateLimitCheck(rl, client_id, t) ==
  LET purged        == IF client_id \in DOMAIN rl
                         THEN PurgeWindow(rl[client_id], t)
                         ELSE <<>>
      request_count == Len(purged)
      allowed       == ~LimitExceeded(request_count)
      window        == IF allowed THEN Append(purged, t) ELSE purged
  IN  [allowed       |-> allowed,
       request_count |-> request_count,
       retry_after   |-> IF allowed THEN 0
                         ELSE RetryAfter(purged, t),
       rate_limits   |-> [c \in DOMAIN rl \cup {client_id} |->
                            IF c = client_id THEN window ELSE rl[c]]]

RateLimitExceeded == JsonifyTuple("Rate limit exceeded", FALSE, 429)

\* The headers rate_limit adds to whatever the view returned.
RateLimitHeaders ==
  {"X-RateLimit-Limit", "X-RateLimit-Remaining", "X-RateLimit-Reset"}

\* ----------------------------------------------------------------- cache
get_cache_key(service, path, query_string) == <<service, path, query_string>>

\* cache_get still returning an entry at the second it expires.
cache_get_at_expiry(c, key, t) ==
  IF key \in DOMAIN c /\ c[key].expires >= t THEN c[key].value ELSE None

\* SimpleCache.get at time t.
cache_get(c, key, t) ==
  IF key \in DOMAIN c /\ c[key].expires > t THEN c[key].value ELSE None

\* SimpleCache.set with timeout=Config.CACHE_TIMEOUT at time t.
cache_set(c, key, value, t) ==
  [k \in DOMAIN c \cup {key} |->
     IF k = key THEN [expires |-> t + CACHE_TIMEOUT, value |-> value]
     ELSE c[k]]

\* cache_clear leaving the entries in place.
cache_clear_nothing(c) == c

\* SimpleCache.clear.
cache_clear(c) == << >>

\* The test the view makes on what cache.get returned.
IsCacheHit(cached_response) == Truthy(cached_response)

\* --------------------------------------------------------- load balancing
NoUrl == "<no url>"

\* A choice among the URLs of every service.
get_service_url_any(service) ==
  UNION {{SERVICES[sv][i] : i \in DOMAIN SERVICES[sv]} : sv \in DOMAIN SERVICES}

\* The URLs random.choice may return for a service; {NoUrl} when the
\* function returns None.
get_service_url(service) ==
  IF service \notin DOMAIN SERVICES THEN {NoUrl}
  ELSE IF Len(SERVICES[service]) = 0 THEN {NoUrl}
  ELSE {SERVICES[service][i] : i \in DOMAIN SERVICES[service]}

\* ------------------------------------------------------- forward_request
\* The result of forwarding to service_url when requests.request ends with
\* outcome: [resp, upstream], upstream telling whether the call was made.
forward_request(service, service_url, outcome) ==
  IF service_url = NoUrl
    THEN [resp |-> JsonifyTuple("Service not found", FALSE, 404),
          upstream |-> FALSE]
  ELSE IF outcome.kind = "exception"
    THEN [resp |-> JsonifyTuple("Service unavailable", TRUE, 503),
          upstream |-> TRUE]
  ELSE [resp |-> MakeResponse(outcome.status, "", FALSE, outcome.body, None, FALSE),
        upstream |-> TRUE]

\* The headers api_gateway tells forward_request to take from the request.
ForwardedHeaders(method) ==
  CASE method = "GET"                     -> {"Authorization", "Accept", "Accept-Language"}
    [] method \in {"POST", "PUT", "PATCH"} -> {"Authorization", "Content-Type"}
    [] OTHER                              -> {"Authorization"}

\* Every header of the request passed on.
request_headers_all(allow, inbound) ==
  Header("X-Gateway-Source", "api-gateway") @@ inbound

\* The headers dictionary forward_request hands to requests.request: the
\* headers of allow the request carries with a non-empty value, then
\* X-Gateway-Source.
request_headers(allow, inbound) ==
  LET kept == {h \in allow \cap DOMAIN inbound : inbound[h] # ""}
  IN  Header("X-Gateway-Source", "api-gateway") @@ [h \in kept |-> inbound[h]]

\* The upstream headers forward_request copies to the gateway's response.
CopiedHeaders == {"Content-Type", "Content-Length", "Content-Language", "ETag"}

\* The headers of the Response forward_request builds from an upstream
\* answer: its content type (application/json when the upstream names none)
\* and the copied headers the upstream sent.
gateway_response_headers(upstream_headers) ==
  [h \in CopiedHeaders \cap DOMAIN upstream_headers |-> upstream_headers[h]]
    @@ Header("Content-Type", "application/json")

\* ----------------------------------------------------------- api_gateway
\* The view behind the decorators, on cache c at time t, when get_service_url
\* picks service_url and the upstream call ends with outcome.  raised tells
\* that the view ended with an uncaught exception (resp is then unused).
\* stages lists the stages the request passed inside the view.
ViewResult(raised, resp, c, stages, upstream, cache_hit, cache_stored) ==
  [raised |-> raised, resp |-> resp, cache |-> c, stages |-> stages,
   upstream |-> upstream, cache_hit |-> cache_hit, cache_stored |-> cache_stored]

\* The GET branch caching whatever status the upstream answered.
ForwardGetAnyStatus(service, path, query_string, c, t, service_url, outcome, stages) ==
  LET fr  == forward_request(service, service_url, outcome)
      key == get_cache_key(service, path, query_string)
  IN  IF fr.resp.is_tuple
        THEN ViewResult(TRUE, fr.resp, c, stages, fr.upstream, FALSE, FALSE)
      ELSE IF json_decodable(fr.resp.data)
        THEN ViewResult(FALSE, fr.resp,
                        cache_set(c, key, json_loads(fr.resp.data), t),
                        stages, fr.upstream, FALSE, TRUE)
      ELSE ViewResult(FALSE, fr.resp, c, stages, fr.upstream, FALSE, FALSE)

\* The GET branch after a cache miss: forward, then cache a 200 answer.
\* forward_request's error results are tuples, which have no status_code:
\* reading it raises AttributeError.  Of the exceptions of json.loads only
\* JSONDecodeError and TypeError are caught.
ForwardGet(service, path, query_string, c, t, service_url, outcome, stages) ==
  LET fr  == forward_request(service, service_url, outcome)
      key == get_cache_key(service, path, query_string)
  IN  IF CACHE_ENABLED /\ fr.resp.is_tuple
        THEN ViewResult(TRUE, fr.resp, c, stages, fr.upstream, FALSE, FALSE)
      ELSE IF CACHE_ENABLED /\ fr.resp.status = 200 /\ ~utf8_decodable(fr.resp.data)
        THEN ViewResult(TRUE, fr.resp, c, stages, fr.upstream, FALSE, FALSE)
      ELSE IF CACHE_ENABLED /\ fr.resp.status = 200 /\ json_decodable(fr.resp.data)
        THEN ViewResult(FALSE, fr.resp,
                        cache_set(c, key, json_loads(fr.resp.data), t),
                        stages, fr.upstream, FALSE, TRUE)
      ELSE ViewResult(FALSE, fr.resp, c, stages, fr.upstream, FALSE, FALSE)

api_gateway(service, path, method, query_string, c, t, service_url, outcome) ==
  LET key    == get_cache_key(service, path, query_string)
      cached == cache_get(c, key, t)
      lookup == method = "GET" /\ CACHE_ENABLED
      fr     == forward_request(service, service_url, outcome)
  IN  IF service \notin DOMAIN SERVICES
        THEN ViewResult(FALSE, JsonifyTuple("Service not found", FALSE, 404),
                        c, << >>, FALSE, FALSE, FALSE)
      ELSE IF lookup /\ IsCacheHit(cached)
        THEN ViewResult(FALSE, MakeResponse(200, "", FALSE, "", cached, FALSE),
                        c, <<"cache_lookup">>, FALSE, TRUE, FALSE)
      ELSE IF method = "GET"
        THEN ForwardGet(service, path, query_string, c, t, service_url, outcome,
                        IF lookup THEN <<"cache_lookup", "forward">>
                        ELSE <<"forward">>)
      ELSE ViewResult(FALSE, fr.resp, c, <<"forward">>, fr.upstream, FALSE, FALSE)

\* Flask's answer to an exception that escapes a view.
InternalServerError == JsonifyTuple("Internal server error", FALSE, 500)

\* What rate_limit returns for the view's response.  Of a (body, status)
\* tuple it unpacks the body, which jsonify made a Response object: the
\* headers are set on it and it is returned alone, with the status jsonify
\* gave it (200); the tuple's status is dropped.
rate_limit_response(response) ==
  IF RATE_LIMIT_ENABLED /\ response.is_tuple
    THEN [response EXCEPT !.status = 200, !.is_tuple = FALSE]
    ELSE response

\* ------------------------------------------------------------------ state
VARIABLES
  now,          \* int(time.time())
  rate_limits,  \* client id -> list of the timestamps of its recorded requests
  cache,        \* cache key -> [expires, value]
  last,         \* the request handled last and the response it got
  admitted,     \* history: client id -> times of its admitted requests
  last_seen,    \* history: client id -> [time, rejected] of its last rate-checked request
  served,       \* history: cache key -> [value, time] of the last 200 JSON answer
                \*   forwarded for a GET; flushed: the entry was cleared
  cached_for,   \* history: cache key -> the headers of the request whose answer
                \*   the entry holds
  unhealthy,    \* environment: the backend URLs that are down; a call to one
                \*   ends with requests.RequestException
  lock,         \* rate_limit_lock: the thread that holds it, or NoWorker
  workers       \* thread -> where it stands in the request it handles

\* The state of src/web_concepts/authentication.py.
VARIABLES
  USERS,         \* username -> [username, password, email, role]
  RESET_TOKENS,  \* reset token -> [username, expiry]
  session,       \* the Flask session of one browser: key -> value
  auth_last,     \* the request the authentication app handled last and its answer
  reset_log      \* history: reset token -> [changes, retired]

\* The state of src/web_concepts/rest_api_concepts.py.
VARIABLES
  users_db,      \* user id -> [id, username, email, role, created_at]
  products_db,   \* product id -> [id, name, price, category, in_stock]
  rest_last      \* the request the REST demo handled last and its answer

\* The state of src/api_gateway/services/order_service.py.
VARIABLES
  ORDERS,        \* order id -> the stored order
  order_last     \* the request the order service handled last and its answer

\* The state of src/websocket_integration/server/app.py.
VARIABLES
  active_users,  \* session id -> [username, room]
  chat_history,  \* room -> list of message objects
  socket_rooms,  \* Flask-SocketIO: session id -> the rooms the socket is in
  chat_last      \* the event the chat server handled last and what it emitted

\* The state of each program beside the gateway, and of all of them.
auth_vars == <<USERS, RESET_TOKENS, session, auth_last, reset_log>>

rest_vars == <<users_db, products_db, rest_last>>

order_vars == <<ORDERS, order_last>>

chat_vars == <<active_users, chat_history, socket_rooms, chat_last>>

other_vars == <<auth_vars, rest_vars, order_vars, chat_vars>>

\* The state of the gateway but its clock.
gateway_vars ==
  <<rate_limits, cache, last, admitted, last_seen, served, cached_for,
    unhealthy, lock, workers>>

vars ==
  <<now, rate_limits, cache, last, admitted, last_seen, served, cached_for,
    unhealthy, lock, workers, other_vars>>

RemoteAddrs == {"10.0.0.1"}

\* USERS as the module defines it.
InitialUsers ==
  [u \in {"alice", "bob"} |->
     IF u = "alice"
       THEN [username |-> "alice", password |-> "password123",
             email |-> "alice@example.com", role |-> "admin"]
       ELSE [username |-> "bob", password |-> "password456",
             email |-> "bob@example.com", role |-> "user"]]

\* A field of the JSON body or of the query string that is absent or empty:
\* data.get returns None or '', which are both falsy.
Missing == ""

\* What the authentication app answered: the route, the status, the keys of
\* the JSON body with its message and error, and the inputs of the request.
AuthReply(route, status, fields, message, error, input) ==
  [route |-> route, status |-> status, fields |-> fields, message |-> message,
   error |-> error, input |-> input]

\* The inputs of a request, for the fields a route does not read.
NoInput == [email |-> Missing, token |-> Missing, new_password |-> Missing,
            username |-> Missing, password |-> Missing, state |-> Missing]

\* No request handled yet.
AuthIdle == AuthReply("", 0, {}, "", "", NoInput)

\* users_db and products_db as rest_api_concepts.py defines them (prices in
\* cents).
InitialUsersDb ==
  [id \in {"1", "2", "3"} |->
     CASE id = "1" -> [id |-> "1", username |-> "alice", email |-> "alice@example.com",
                       role |-> "admin", created_at |-> "2023-01-01T10:00:00Z"]
       [] id = "2" -> [id |-> "2", username |-> "bob", email |-> "bob@example.com",
                       role |-> "user", created_at |-> "2023-01-02T11:30:00Z"]
       [] id = "3" -> [id |-> "3", username |-> "charlie", email |-> "charlie@example.com",
                       role |-> "user", created_at |-> "2023-01-03T09:15:00Z"]]

InitialProductsDb ==
  [id \in {"1", "2", "3"} |->
     CASE id = "1" -> [id |-> "1", name |-> "Laptop", price |-> 99999,
                       category |-> "electronics", in_stock |-> TRUE]
       [] id = "2" -> [id |-> "2", name |-> "Smartphone", price |-> 49999,
                       category |-> "electronics", in_stock |-> TRUE]
       [] id = "3" -> [id |-> "3", name |-> "Headphones", price |-> 9999,
                       category |-> "accessories", in_stock |-> FALSE]]

\* What the REST demo answered: the route, the status, the id of the record
\* the request created or named, and the error of the JSON body.
RestReply(route, status, id, error) ==
  [route |-> route, status |-> status, id |-> id, error |-> error]

\* An item of an order (the price in cents).
Item(product_id, quantity, price) ==
  [product_id |-> product_id, quantity |-> quantity, price |-> price]

\* ORDERS as order_service.py defines it; an address is named by its street.
InitialOrders ==
  [id \in {"1", "2", "3"} |->
     CASE id = "1" -> [id |-> "1", user_id |-> "1", status |-> "delivered",
                       items |-> <<Item("1", 1, 129999), Item("3", 1, 19999)>>,
                       total |-> 149998, shipping_address |-> "123 Main St",
                       created_at |-> "2023-01-20T09:15:00Z",
                       updated_at |-> "2023-01-25T14:30:00Z"]
       [] id = "2" -> [id |-> "2", user_id |-> "1", status |-> "shipped",
                       items |-> <<Item("4", 1, 24999)>>,
                       total |-> 24999, shipping_address |-> "123 Main St",
                       created_at |-> "2023-02-10T11:20:00Z",
                       updated_at |-> "2023-02-12T16:45:00Z"]
       [] id = "3" -> [id |-> "3", user_id |-> "2", status |-> "processing",
                       items |-> <<Item("2", 1, 89999), Item("3", 2, 19999)>>,
                       total |-> 129997, shipping_address |-> "456 Oak Ave",
                       created_at |-> "2023-03-05T10:10:00Z",
                       updated_at |-> "2023-03-05T10:10:00Z"]]

\* What the order service answered: the route, the status, the order named
\* and the error of the JSON body.
OrderReply(route, status, order_id, error) ==
  [route |-> route, status |-> status, order_id |-> order_id, error |-> error]

\* The session ids of the sockets connected to the chat server.
Sids == {"sid1", "sid2"}

\* What the chat server did with an event: the event and its socket, the
\* event emitted in answer, the room and the active_users list of a
\* user_joined or user_left notification, and the error emitted or raised.
ChatResult(event, sid, emitted, room, users, error) ==
  [event |-> event, sid |-> sid, emitted |-> emitted, room |-> room,
   active_users |-> users, error |-> error]

\* The threads of the server: each handles one request at a time.
Workers == {"w1", "w2"}

\* rate_limit_lock when no thread holds it.
NoWorker == "<unlocked>"

\* The timeout of a requests.request call that names none: the call waits
\* until the upstream answers or the connection fails.
NoTimeout == "None"

\* A thread between two requests.
\*   pc             "idle", or the step of the request the thread takes next:
\*                  "acquire", "purge", "check", "append", "forward", or
\*                  "waiting" inside requests.request
\*   now            rate_limit's local now
\*   request_count  rate_limit's local request_count
\*   timeout        the timeout of the pending requests.request call
IdleWorker == [pc |-> "idle", now |-> 0, request_count |-> 0, timeout |-> NoTimeout]

\* The record kept of a handled request, before any request was handled.
\*   route .. query_string   the request
\*   status .. headers       the response: see MakeResponse; headers holds the
\*                           names of the rate-limit headers it carries
\*   stages                  the stages the request passed, in order
\*   outcome, upstream       how the upstream call ended, and whether one was made
\*   allowed .. retry_after  what the rate limiter computed
\*   cache_hit, cache_stored whether the view served from, or wrote to, the cache
\*   idle, prev_rejected     history: seconds since the client's previous
\*                           rate-checked request (-1: none), and whether that
\*                           one was rejected
\*   after_clear             history: the key's entry was flushed by the last
\*                           clear and not asked for since
\*   inbound                 the headers of an admitted request
\*   sent, answered          the headers of the upstream request and of the
\*                           upstream's answer
\*   copied                  the headers the response got from forward_request
\*   url                     the backend URL the upstream call went to
\*   upstream_status, upstream_body
\*                           the upstream's answer (0 and "": none)
Idle ==
  [route |-> "", method |-> "", api_key |-> NoHeader, service |-> "", path |-> "",
   query_string |-> "", status |-> 0, error |-> "", has_message |-> FALSE,
   data |-> "", payload |-> None, headers |-> {}, stages |-> << >>,
   outcome |-> "none", upstream |-> FALSE,
   allowed |-> FALSE, request_count |-> 0, retry_after |-> 0,
   cache_hit |-> FALSE, cache_stored |-> FALSE,
   idle |-> -1, prev_rejected |-> FALSE, after_clear |-> FALSE,
   inbound |-> NoHeaders, sent |-> NoHeaders, answered |-> NoHeaders,
   copied |-> NoHeaders, url |-> NoUrl, upstream_status |-> 0, upstream_body |-> ""]

\* A handled request: its route, method and key, the response and the stages.
Plain(route, method, api_key, resp, stages) ==
  [Idle EXCEPT !.route = route, !.method = method, !.api_key = api_key,
               !.status = resp.status, !.error = resp.error,
               !.has_message = resp.has_message, !.data = resp.data,
               !.payload = resp.payload, !.stages = stages]

\* A proxy request the rate limiter has checked.
RateChecked(method, api_key, service, path, query_string, resp, stages, rl, client_id) ==
  [Plain("proxy", method, api_key, resp, stages) EXCEPT
     !.service = service, !.path = path, !.query_string = query_string,
     !.allowed = rl.allowed, !.request_count = rl.request_count,
     !.retry_after = rl.retry_after,
     !.idle = IF client_id \in DOMAIN last_seen
                THEN now - last_seen[client_id].time ELSE -1,
     !.prev_rejected = client_id \in DOMAIN last_seen /\ last_seen[client_id].rejected]

Init ==
  /\ now = 0
  /\ rate_limits = << >>
  /\ cache = << >>
  /\ last = Idle
  /\ admitted = << >>
  /\ last_seen = << >>
  /\ served = << >>
  /\ cached_for = << >>
  /\ unhealthy = {}
  /\ lock = NoWorker
  /\ workers = [w \in Workers |-> IdleWorker]
  /\ USERS = InitialUsers
  /\ RESET_TOKENS = << >>
  /\ session = << >>
  /\ auth_last = AuthIdle
  /\ reset_log = << >>
  /\ users_db = InitialUsersDb
  /\ products_db = InitialProductsDb
  /\ rest_last = RestReply("", 0, "", "")
  /\ ORDERS = InitialOrders
  /\ order_last = OrderReply("", 0, "", "")
  /\ active_users = << >>
  /\ chat_history = << >>
  /\ socket_rooms = [sid \in Sids |-> {}]
  /\ chat_last = ChatResult("", "", "", "", {}, "")

\* ---------------------------------------------------------------- actions
\* history: the admission at time t appended to a client's record.
Admit(adm, client_id, t) ==
  [c \in DOMAIN adm \cup {client_id} |->
     IF c = client_id
       THEN Append(IF c \in DOMAIN adm THEN adm[c] ELSE << >>, t)
       ELSE adm[c]]

\* history: a client's last rate-checked request.
Seen(seen, client_id, t, rejected) ==
  [c \in DOMAIN seen \cup {client_id} |->
     IF c = client_id THEN [time |-> t, rejected |-> rejected] ELSE seen[c]]

\* history: the 200 JSON answer forwarded for a GET on key at time t.
Serve(srv, key, value, t) ==
  [k \in DOMAIN srv \cup {key} |->
     IF k = key THEN [value |-> value, time |-> t, flushed |-> FALSE] ELSE srv[k]]

\* history: a key whose entry a clear flushed.
Flushed == [value |-> None, time |-> 0, flushed |-> TRUE]

\* history: after an admitted GET on key, the key no longer counts as flushed.
Asked(srv, key) ==
  IF key \in DOMAIN srv /\ srv[key].flushed
    THEN [k \in DOMAIN srv \ {key} |-> srv[k]]
    ELSE srv

\* TRUE when a request gets as far as calling the upstream.
CallsUpstream(api_key, remote_addr, method, service, path, query_string, service_url) ==
  /\ require_api_key(api_key)
  /\ RateLimitCheck(rate_limits, client_id_of(api_key, remote_addr), now).allowed
  /\ api_gateway(service, path, method, query_string, cache, now,
                 service_url, NoCall).upstream

\* Reject with the limit checked after the view has run: the 429 replaces
\* the view's response, the view's effects stay.
RejectAfterView(api_key, client_id, method, service, path, query_string, outcome, rl, view) ==
  /\ rate_limits' = rl.rate_limits
  /\ cache' = view.cache
  /\ last' = [RateChecked(method, api_key, service, path, query_string,
                          RateLimitExceeded,
                          <<"api_key", "rate_limit">> \o view.stages, rl, client_id)
                EXCEPT !.upstream = view.upstream,
                       !.cache_stored = view.cache_stored]
  /\ last_seen' = Seen(last_seen, client_id, now, TRUE)
  /\ UNCHANGED <<now, admitted, served, cached_for, unhealthy, lock, workers, other_vars>>

\* Reject recording the rejected request in the window.
RejectRecorded(api_key, client_id, method, service, path, query_string, outcome, rl, view) ==
  /\ rate_limits' = [rl.rate_limits EXCEPT ![client_id] = Append(@, now)]
  /\ last' = RateChecked(method, api_key, service, path, query_string,
                         RateLimitExceeded, <<"api_key", "rate_limit">>, rl, client_id)
  /\ last_seen' = Seen(last_seen, client_id, now, TRUE)
  /\ UNCHANGED <<now, cache, admitted, served, cached_for, unhealthy, lock, workers,
                 other_vars>>

\* rate_limit found the limit exceeded: the purged window is kept, the view
\* is not called, the 429 is returned as it is.
Reject(api_key, client_id, method, service, path, query_string, outcome, rl, view) ==
  /\ rate_limits' = rl.rate_limits
  /\ last' = RateChecked(method, api_key, service, path, query_string,
                         RateLimitExceeded, <<"api_key", "rate_limit">>, rl, client_id)
  /\ last_seen' = Seen(last_seen, client_id, now, TRUE)
  /\ UNCHANGED <<now, cache, admitted, served, cached_for, unhealthy, lock, workers,
                 other_vars>>

\* rate_limit recorded the request: the view runs and its response gets the
\* rate-limit headers, unless the view raised.
Accept(api_key, client_id, method, service, path, query_string, outcome, rl, view, headers, service_url) ==
  LET resp == IF view.raised THEN InternalServerError
              ELSE rate_limit_response(view.resp)
      key  == get_cache_key(service, path, query_string)
      inbound  == inbound_headers(api_key, headers)
      answered == view.upstream /\ outcome.kind = "response"
  IN  /\ rate_limits' = rl.rate_limits
      /\ cache' = view.cache
      /\ last' = [RateChecked(method, api_key, service, path, query_string, resp,
                              <<"api_key", "rate_limit">> \o view.stages, rl, client_id)
                    EXCEPT !.headers = IF view.raised THEN {} ELSE RateLimitHeaders,
                           !.outcome = IF view.upstream THEN outcome.kind ELSE "none",
                           !.upstream = view.upstream,
                           !.cache_hit = view.cache_hit,
                           !.cache_stored = view.cache_stored,
                           !.after_clear = /\ method = "GET"
                                           /\ key \in DOMAIN served
                                           /\ served[key].flushed,
                           !.inbound = inbound,
                           !.sent = IF view.upstream
                                      THEN request_headers(ForwardedHeaders(method),
                                                           inbound)
                                      ELSE NoHeaders,
                           !.answered = IF answered THEN outcome.headers
                                        ELSE NoHeaders,
                           !.copied = IF answered /\ ~view.raised
                                        THEN gateway_response_headers(outcome.headers)
                                        ELSE NoHeaders,
                           !.url = IF view.upstream THEN service_url ELSE NoUrl,
                           !.upstream_status = IF answered THEN outcome.status ELSE 0,
                           !.upstream_body = IF answered THEN outcome.body ELSE ""]
      /\ admitted' = Admit(admitted, client_id, now)
      /\ last_seen' = Seen(last_seen, client_id, now, FALSE)
      /\ served' = IF method # "GET" \/ service \notin DOMAIN SERVICES
                     THEN served
                   ELSE IF /\ view.upstream
                           /\ outcome.kind = "response"
                           /\ outcome.status = 200
                           /\ json_decodable(outcome.body)
                     THEN Serve(served, key, json_loads(outcome.body), now)
                   ELSE Asked(served, key)
      /\ cached_for' = IF view.cache_stored
                         THEN Header(key, inbound) @@ cached_for
                         ELSE cached_for
      /\ UNCHANGED <<now, unhealthy, lock, workers, other_vars>>

\* What rate_limit does with the outcome rl of its check.
Respond(api_key, client_id, method, service, path, query_string, outcome, rl, view, headers, service_url) ==
  IF RATE_LIMIT_ENABLED /\ ~rl.allowed
    THEN Reject(api_key, client_id, method, service, path, query_string, outcome, rl, view)
    ELSE Accept(api_key, client_id, method, service, path, query_string, outcome, rl, view,
                headers, service_url)

\* /api/<service>/<path>: require_api_key, then rate_limit, then the view.
ProxyRequest(api_key, remote_addr, method, service, path, query_string, headers, service_url, outcome) ==
  IF ~require_api_key(api_key)
    THEN /\ last' = Plain("proxy", method, api_key, Unauthorized, <<"api_key">>)
         /\ UNCHANGED <<now, rate_limits, cache, admitted, last_seen, served,
                        cached_for, unhealthy, lock, workers, other_vars>>
  ELSE \E rl \in {RateLimitCheck(rate_limits, client_id_of(api_key, remote_addr), now)},
          view \in {api_gateway(service, path, method, query_string, cache, now,
                                service_url, outcome)} :
         Respond(api_key, client_id_of(api_key, remote_addr), method, service, path,
                 query_string, outcome, rl, view, headers, service_url)

\* POST /admin/cache/clear
clear_cache(api_key) ==
  IF ~require_api_key(api_key)
    THEN /\ last' = Plain("cache_clear", "POST", api_key, Unauthorized, <<"api_key">>)
         /\ UNCHANGED <<now, rate_limits, cache, admitted, last_seen, served,
                        cached_for, unhealthy, lock, workers, other_vars>>
  ELSE /\ cache' = IF CACHE_ENABLED THEN cache_clear(cache) ELSE cache
       /\ served' = [k \in DOMAIN cache |-> Flushed]
       /\ cached_for' = << >>
       /\ last' = Plain("cache_clear", "POST", api_key,
                        MakeResponse(200, "", FALSE, "", None, ~CACHE_ENABLED),
                        <<"api_key">>)
       /\ UNCHANGED <<now, rate_limits, admitted, last_seen, unhealthy, lock, workers,
                      other_vars>>

\* GET /admin/services and GET /admin/rate-limits: they read and report.
AdminRead(route, api_key) ==
  /\ last' = Plain(route, "GET", api_key,
                   IF require_api_key(api_key)
                     THEN MakeResponse(200, "", FALSE, "", None, FALSE)
                     ELSE Unauthorized,
                   <<"api_key">>)
  /\ UNCHANGED <<now, rate_limits, cache, admitted, last_seen, served, cached_for,
                 unhealthy, lock, workers, other_vars>>

\* GET /health and GET /: no key is asked for.
PublicRead(route) ==
  /\ last' = Plain(route, "GET", NoHeader,
                   MakeResponse(200, "", FALSE, "", None, FALSE), << >>)
  /\ UNCHANGED <<now, rate_limits, cache, admitted, last_seen, served, cached_for,
                 unhealthy, lock, workers, other_vars>>

\* history: the admissions that can still fall inside a trailing window that
\* ends at time t or later.
StillCounted(adm, t) ==
  [c \in DOMAIN adm |-> SelectSeq(adm[c], LAMBDA ts : ts > t - RATE_LIMIT_WINDOW)]

\* A second passes on the clock; the last response has been delivered.
Tick ==
  /\ now < MaxTime
  /\ now' = now + 1
  /\ last' = Idle
  /\ admitted' = StillCounted(admitted, now + 1)
  /\ UNCHANGED <<rate_limits, cache, last_seen, served, cached_for, unhealthy, lock,
                 workers, other_vars>>

\* A backend goes down or comes back; the last response has been delivered.
BackendChange(url) ==
  /\ unhealthy' = IF url \in unhealthy THEN unhealthy \ {url} ELSE unhealthy \cup {url}
  /\ last' = Idle
  /\ UNCHANGED <<now, rate_limits, cache, admitted, last_seen, served, cached_for,
                 lock, workers, other_vars>>

\* ------------------------------------------------ the steps of a thread
\* The requests of the threads: POSTs of one caller holding the key, to a
\* registered service (no cache is involved).
WorkerClient == client_id_of(API_KEY, "10.0.0.1")

\* What a step of a thread leaves alone.
WorkerUnchanged ==
  UNCHANGED <<cache, last, last_seen, served, cached_for, unhealthy, other_vars>>

\* A request arrives and passes require_api_key.
Enter(w) ==
  /\ workers[w].pc = "idle"
  /\ workers' = [workers EXCEPT ![w] = [IdleWorker EXCEPT !.pc = "acquire"]]
  /\ UNCHANGED <<now, rate_limits, admitted, lock>>
  /\ WorkerUnchanged

\* Entering the with block without waiting for the lock.
AcquireUnlocked(w) ==
  /\ workers[w].pc = "acquire"
  /\ lock' = w
  /\ workers' = [workers EXCEPT ![w].pc = "purge", ![w].now = now]
  /\ UNCHANGED <<now, rate_limits, admitted>>
  /\ WorkerUnchanged

\* with rate_limit_lock: the thread waits until the lock is free, takes it
\* and reads the clock.
Acquire(w) ==
  /\ workers[w].pc = "acquire"
  /\ lock = NoWorker
  /\ lock' = w
  /\ workers' = [workers EXCEPT ![w].pc = "purge", ![w].now = now]
  /\ UNCHANGED <<now, rate_limits, admitted>>
  /\ WorkerUnchanged

\* The client's window is created or purged, and counted.
Purge(w) ==
  LET purged == IF WorkerClient \in DOMAIN rate_limits
                  THEN PurgeWindow(rate_limits[WorkerClient], workers[w].now)
                  ELSE << >>
  IN  /\ workers[w].pc = "purge"
      /\ rate_limits' = [c \in DOMAIN rate_limits \cup {WorkerClient} |->
                           IF c = WorkerClient THEN purged ELSE rate_limits[c]]
      /\ workers' = [workers EXCEPT ![w].pc = "check",
                                    ![w].request_count = Len(purged)]
      /\ UNCHANGED <<now, admitted, lock>>
      /\ WorkerUnchanged

\* The limit check: on excess the 429 is returned, which leaves the with
\* block and releases the lock.
Check(w) ==
  /\ workers[w].pc = "check"
  /\ IF LimitExceeded(workers[w].request_count)
       THEN /\ workers' = [workers EXCEPT ![w] = IdleWorker]
            /\ lock' = NoWorker
       ELSE /\ workers' = [workers EXCEPT ![w].pc = "append"]
            /\ lock' = lock
  /\ UNCHANGED <<now, rate_limits, admitted>>
  /\ WorkerUnchanged

\* The request is recorded; the with block ends and releases the lock.
Record(w) ==
  /\ workers[w].pc = "append"
  /\ rate_limits' = [rate_limits EXCEPT
                       ![WorkerClient] = Append(@, workers[w].now)]
  /\ admitted' = Admit(admitted, WorkerClient, workers[w].now)
  /\ lock' = NoWorker
  /\ workers' = [workers EXCEPT ![w].pc = "forward"]
  /\ UNCHANGED now
  /\ WorkerUnchanged

\* forward_request calls requests.request, naming no timeout.
Send(w) ==
  /\ workers[w].pc = "forward"
  /\ workers' = [workers EXCEPT ![w].pc = "waiting", ![w].timeout = NoTimeout]
  /\ UNCHANGED <<now, rate_limits, admitted, lock>>
  /\ WorkerUnchanged

\* The upstream answers or the connection fails: requests.request returns
\* or raises, and the thread finishes the request.
UpstreamReturns(w) ==
  /\ workers[w].pc = "waiting"
  /\ workers' = [workers EXCEPT ![w] = IdleWorker]
  /\ UNCHANGED <<now, rate_limits, admitted, lock>>
  /\ WorkerUnchanged

NextWorkers ==
  \/ \E w \in Workers : Enter(w)
  \/ \E w \in Workers : Acquire(w)
  \/ \E w \in Workers : Purge(w)
  \/ \E w \in Workers : Check(w)
  \/ \E w \in Workers : Record(w)
  \/ \E w \in Workers : Send(w)
  \/ \E w \in Workers : UpstreamReturns(w)
  \/ Tick

\* The threads of the server handling concurrent requests of one client.
SpecWorkers == Init /\ [][NextWorkers]_vars

\* The requests callers send: the sets the fields of a request are drawn from
\* and the outcomes the upstream call of a forwarded request may have.
CallersWith(api_keys, methods, services, query_strings, outcomes, headers) ==
  [api_keys |-> api_keys, methods |-> methods, services |-> services,
   query_strings |-> query_strings, outcomes |-> outcomes, headers |-> headers]

\* Callers that send no header but X-API-Key.
Callers(api_keys, methods, services, query_strings, outcomes) ==
  CallersWith(api_keys, methods, services, query_strings, outcomes, {NoHeaders})

\* One step of the gateway serving the callers U.  get_service_url picks a
\* URL, and the upstream call has an outcome, only for a request that gets as
\* far as forward_request.
NextOf(U) ==
  \/ \E api_key \in U.api_keys, remote_addr \in RemoteAddrs, method \in U.methods,
        service \in U.services, path \in RequestPaths,
        query_string \in U.query_strings, headers \in U.headers :
       \E calls \in {CallsUpstream(api_key, remote_addr, method, service, path,
                                    query_string,
                                    CHOOSE url \in get_service_url(service) : TRUE)} :
         \E service_url \in IF calls THEN get_service_url(service) ELSE {NoUrl} :
           \E outcome \in IF ~calls THEN {NoCall}
                          ELSE IF service_url \in unhealthy THEN {RequestException}
                          ELSE U.outcomes :
             ProxyRequest(api_key, remote_addr, method, service, path, query_string,
                          headers, service_url, outcome)
  \/ \E api_key \in U.api_keys : clear_cache(api_key)
  \/ \E api_key \in U.api_keys, route \in {"services", "rate_limits"} :
       AdminRead(route, api_key)
  \/ \E route \in {"health", "documentation"} : PublicRead(route)
  \/ Tick

\* Every caller, every method, every upstream outcome.
AllCallers ==
  Callers(ApiKeys, Methods, RequestServices, QueryStrings, UpstreamOutcomes)

Next == NextOf(AllCallers)

Spec == Init /\ [][Next]_vars

\* The rate limiter under load: keyed and unkeyed callers repeating one GET
\* whose upstream answers or fails.
LimiterCallers ==
  Callers(ApiKeys, {"GET", "POST"}, {"user_service"}, {"a=1&b=2"},
          {Answer(200, "{\"id\":1}"), RequestException})

SpecLimiter == Init /\ [][NextOf(LimiterCallers)]_vars

\* The cache under every upstream answer: GETs of callers holding the key.
CacheCallers ==
  Callers({API_KEY}, {"GET"}, {"user_service"}, QueryStrings,
          {Answer(200, body) : body \in Bodies})

SpecCache == Init /\ [][NextOf(CacheCallers)]_vars

\* Every path through the dispatcher: every key, method and service, with an
\* upstream that answers or fails.
DispatchCallers ==
  Callers(ApiKeys, Methods, RequestServices, {"a=1&b=2"},
          {Answer(200, "{\"id\":1}"), Answer(500, "{\"id\":1}"), RequestException})

SpecDispatch == Init /\ [][NextOf(DispatchCallers)]_vars

\* The headers on their way through the gateway: two callers with their own
\* Authorization sending one request under each method's allow-list, to an
\* upstream that answers with headers or fails.
HeaderCallers ==
  CallersWith({API_KEY}, {"GET", "POST", "DELETE"}, {"user_service"}, {"a=1&b=2"},
              {AnswerWith(200, "{\"id\":1}", UpstreamHeaders), RequestException},
              RequestHeaders)

SpecHeaders == Init /\ [][NextOf(HeaderCallers)]_vars

\* GETs whose upstream answers 200 with a body that is no JSON: text or
\* bytes.
MalformedCallers ==
  Callers({API_KEY}, {"GET"}, {"user_service"}, QueryStrings,
          {Answer(200, "{\"id\":1}"), Answer(200, "<html>"), Answer(200, PngBody)})

SpecMalformed == Init /\ [][NextOf(MalformedCallers)]_vars

\* The registered backend URLs of a service.
Endpoints(service) ==
  IF service \in DOMAIN SERVICES
    THEN {SERVICES[service][i] : i \in DOMAIN SERVICES[service]}
    ELSE {}

\* Requests of every method to an unregistered service and to a service
\* whose backends go down and come back.
HealthCallers ==
  Callers({API_KEY}, Methods, RequestServices, {"a=1&b=2"},
          {Answer(200, "{\"id\":1}"), RequestException})

NextHealth ==
  \/ NextOf(HealthCallers)
  \/ \E url \in Endpoints("user_service") : BackendChange(url)

SpecHealth == Init /\ [][NextHealth]_vars

\* ================================= src/web_concepts/authentication.py
\* A dict with one key set, and with one key removed.
dict_set(d, key, value) ==
  [k \in DOMAIN d \cup {key} |-> IF k = key THEN value ELSE d[k]]

dict_del(d, key) == [k \in DOMAIN d \ {key} |-> d[k]]

\* -------------------------------------------------- password reset flow
\* The emails a caller asks a reset for: two of accounts, one of no account,
\* and none.
Emails == {"alice@example.com", "bob@example.com", "mallory@example.com", Missing}

\* str(uuid.uuid4()): the n-th token of the run (no two are equal).
uuid4(n) == ToString(n)

NewPasswords == {"hunter2", "letmein", Missing}

\* The loop over USERS.values(): the users with the email (None: the empty set).
find_user_by_email(users, email) == {u \in DOMAIN users : users[u].email = email}

\* The JSON forgot_password answers with, for an email of an account and for
\* one of no account.
forgot_password_response(found) ==
  [status |-> 200,
   message |-> "If an account with that email exists, a password reset link has been sent.",
   fields |-> IF found THEN {"message", "reset_link"} ELSE {"message"}]

\* int(time.time()) > token_data['expiry']
token_expired(token_data, t) == t > token_data.expiry

\* The used token left in RESET_TOKENS.
del_used_token_kept(tokens, token) == tokens

\* del RESET_TOKENS[token] after the password was updated.
del_used_token(tokens, token) == dict_del(tokens, token)

\* history: the token has changed a password, or was removed.
LogReset(log, token, changed) ==
  [log EXCEPT ![token] = [changes |-> @.changes + (IF changed THEN 1 ELSE 0),
                          retired |-> TRUE]]

\* POST /api/password/forgot
forgot_password(email) ==
  LET input == [NoInput EXCEPT !.email = email]
      user  == find_user_by_email(USERS, email)
      token == uuid4(Cardinality(DOMAIN reset_log) + 1)
      r     == forgot_password_response(user # {})
  IN  /\ IF email = Missing
           THEN /\ auth_last' = AuthReply("forgot_password", 400, {"error"}, "",
                                          "Email required", input)
                /\ UNCHANGED <<RESET_TOKENS, reset_log>>
           ELSE IF user = {}
             THEN /\ auth_last' = AuthReply("forgot_password", r.status, r.fields,
                                            r.message, "", input)
                  /\ UNCHANGED <<RESET_TOKENS, reset_log>>
             ELSE /\ Cardinality(DOMAIN reset_log) < MaxResetTokens
                  /\ \E u \in user :
                       RESET_TOKENS' =
                         dict_set(RESET_TOKENS, token,
                                  [username |-> USERS[u].username,
                                   expiry |-> now + RESET_TOKEN_LIFETIME])
                  /\ reset_log' = dict_set(reset_log, token,
                                           [changes |-> 0, retired |-> FALSE])
                  /\ auth_last' = AuthReply("forgot_password", r.status, r.fields,
                                            r.message, "", [input EXCEPT !.token = token])
      /\ UNCHANGED <<now, gateway_vars, rest_vars, order_vars, chat_vars, USERS, session>>

\* POST /api/password/reset
reset_password(token, new_password) ==
  LET input == [NoInput EXCEPT !.token = token, !.new_password = new_password]
  IN  /\ IF token = Missing \/ new_password = Missing
           THEN /\ auth_last' = AuthReply("reset_password", 400, {"error"}, "",
                                          "Token and new password required", input)
                /\ UNCHANGED <<USERS, RESET_TOKENS, reset_log>>
           ELSE IF token \notin DOMAIN RESET_TOKENS
             THEN /\ auth_last' = AuthReply("reset_password", 400, {"error"}, "",
                                            "Invalid or expired token", input)
                  /\ UNCHANGED <<USERS, RESET_TOKENS, reset_log>>
             ELSE IF token_expired(RESET_TOKENS[token], now)
               THEN /\ RESET_TOKENS' = dict_del(RESET_TOKENS, token)
                    /\ reset_log' = LogReset(reset_log, token, FALSE)
                    /\ auth_last' = AuthReply("reset_password", 400, {"error"}, "",
                                              "Token expired", input)
                    /\ UNCHANGED USERS
               ELSE /\ USERS' = [USERS EXCEPT
                                   ![RESET_TOKENS[token].username].password = new_password]
                    /\ RESET_TOKENS' = del_used_token(RESET_TOKENS, token)
                    /\ reset_log' = LogReset(reset_log, token, TRUE)
                    /\ auth_last' = AuthReply("reset_password", 200, {"message"},
                                              "Password reset successful", "", input)
      /\ UNCHANGED <<now, gateway_vars, rest_vars, order_vars, chat_vars, session>>

\* A second passes on the clock of the authentication app; the last answer
\* has been delivered.
AuthTick ==
  /\ now < MaxTime
  /\ now' = now + 1
  /\ auth_last' = AuthIdle
  /\ UNCHANGED <<gateway_vars, rest_vars, order_vars, chat_vars, USERS, RESET_TOKENS,
                 session, reset_log>>

NextReset ==
  \/ \E email \in Emails : forgot_password(email)
  \/ \E token \in DOMAIN reset_log \cup {"forged", Missing} :
       \E new_password \in NewPasswords : reset_password(token, new_password)
  \/ AuthTick

\* Callers of the password reset flow.
SpecReset == Init /\ [][NextReset]_vars

\* ----------------------------------------- session-based authentication
Usernames == {"alice", "bob", "mallory", Missing}

Passwords == {"password123", "password456", Missing}

\* The values uuid4 gives the OAuth state, and what a callback may carry.
OAuthStates == {"state-a", "state-b"}

\* session.get(key): None, which equals no string, when the key is absent.
session_get(s, key) == IF key \in DOMAIN s THEN s[key] ELSE "<None>"

\* POST /login
login(username, password) ==
  LET input == [NoInput EXCEPT !.username = username, !.password = password]
  IN  /\ IF username = Missing \/ password = Missing
           THEN /\ auth_last' = AuthReply("login", 400, {"error"}, "",
                                          "Username and password required", input)
                /\ UNCHANGED session
           ELSE IF username \notin DOMAIN USERS \/ USERS[username].password # password
             THEN /\ auth_last' = AuthReply("login", 401, {"error"}, "",
                                            "Invalid credentials", input)
                  /\ UNCHANGED session
             ELSE /\ session' = dict_set(dict_set(session, "user_id", username),
                                         "user_role", USERS[username].role)
                  /\ auth_last' = AuthReply("login", 200, {"message", "username"},
                                            "Login successful", "", input)
      /\ UNCHANGED <<now, gateway_vars, rest_vars, order_vars, chat_vars, USERS,
                     RESET_TOKENS, reset_log>>

\* GET /logout: session.clear()
logout ==
  /\ session' = << >>
  /\ auth_last' = AuthReply("logout", 200, {"message"}, "Logout successful", "", NoInput)
  /\ UNCHANGED <<now, gateway_vars, rest_vars, order_vars, chat_vars, USERS,
                 RESET_TOKENS, reset_log>>

\* GET /oauth/login: a fresh state is stored and the browser is redirected
\* to the provider.
oauth_login(state) ==
  /\ session' = dict_set(session, "oauth_state", state)
  /\ auth_last' = AuthReply("oauth_login", 302, {}, "", "",
                            [NoInput EXCEPT !.state = state])
  /\ UNCHANGED <<now, gateway_vars, rest_vars, order_vars, chat_vars, USERS,
                 RESET_TOKENS, reset_log>>

\* The simulated answer of the provider's user-info endpoint.
user_info == [id |-> "12345", email |-> "oauth_user@example.com", name |-> "OAuth User"]

\* GET /oauth/callback
oauth_callback(error, state) ==
  LET input == [NoInput EXCEPT !.state = state]
  IN  /\ IF error # Missing
           THEN /\ auth_last' = AuthReply("oauth_callback", 400, {"error"}, "", error, input)
                /\ UNCHANGED session
           ELSE IF state = Missing \/ state # session_get(session, "oauth_state")
             THEN /\ auth_last' = AuthReply("oauth_callback", 400, {"error"}, "",
                                            "Invalid state parameter", input)
                  /\ UNCHANGED session
             ELSE /\ session' =
                       dict_set(dict_set(dict_set(dict_set(session,
                         "user_id", user_info.id),
                         "user_email", user_info.email),
                         "user_name", user_info.name),
                         "access_token", "simulated-access-token")
                  /\ auth_last' = AuthReply("oauth_callback", 302, {}, "", "", input)
      /\ UNCHANGED <<now, gateway_vars, rest_vars, order_vars, chat_vars, USERS,
                     RESET_TOKENS, reset_log>>

\* GET /api/session/profile behind require_session_auth: 401 without user_id
\* in the session; USERS[session['user_id']] raises KeyError for an id that
\* is no key of USERS, which Flask answers with 500.
session_profile ==
  /\ IF "user_id" \notin DOMAIN session
       THEN auth_last' = AuthReply("session_profile", 401, {"error"}, "",
                                   "Authentication required", NoInput)
       ELSE IF session["user_id"] \notin DOMAIN USERS
         THEN auth_last' = AuthReply("session_profile", 500, {}, "", "KeyError", NoInput)
         ELSE auth_last' = AuthReply("session_profile", 200, {"username", "email", "role"},
                                     "", "",
                                     [NoInput EXCEPT !.username =
                                        USERS[session["user_id"]].username])
  /\ UNCHANGED <<now, gateway_vars, rest_vars, order_vars, chat_vars, USERS,
                 RESET_TOKENS, session, reset_log>>

NextSession ==
  \/ \E username \in Usernames : \E password \in Passwords : login(username, password)
  \/ logout
  \/ \E state \in OAuthStates : oauth_login(state)
  \/ \E error \in {Missing, "access_denied"} : \E state \in OAuthStates \cup {Missing} :
       oauth_callback(error, state)
  \/ session_profile

\* One browser session using the login, logout, OAuth and profile routes.
SpecSession == Init /\ [][NextSession]_vars

\* =============================== src/web_concepts/rest_api_concepts.py
\* The stores hold at most MaxRecords records in a run.
MaxRecords == 4

\* The Authorization headers callers send, each a scheme and what follows it:
\* none, and admin:password and bob:secret in Basic form.
AuthHeaders ==
  {[scheme |-> "", encoded |-> ""],
   [scheme |-> "Basic", encoded |-> "YWRtaW46cGFzc3dvcmQ="],
   [scheme |-> "Basic", encoded |-> "Ym9iOnNlY3JldA=="]}

\* base64.b64decode(encoded_credentials).decode('utf-8')
b64decode(encoded) ==
  CASE encoded = "YWRtaW46cGFzc3dvcmQ=" -> "admin:password"
    [] encoded = "Ym9iOnNlY3JldA==" -> "bob:secret"

\* require_auth: the error of its 401, or "" when it lets the request through.
require_auth(auth_header) ==
  IF auth_header.scheme # "Basic"
    THEN "Authentication required"
    ELSE IF b64decode(auth_header.encoded) # "admin:password"
      THEN "Invalid credentials"
      ELSE ""

\* The JSON bodies of POST /api/v1/users: a new user, the username of a
\* stored user, and a body that lacks a required field.
UserData ==
  {[username |-> "dave", email |-> "dave@example.com"],
   [username |-> "bob", email |-> "bob@example.org", role |-> "admin"],
   [username |-> "dave"]}

\* data.get(key, default)
dict_get(d, key, default) == IF key \in DOMAIN d THEN d[key] ELSE default

\* The ids of a store's path parameter.
RecordIds == {ToString(n) : n \in 1..MaxRecords}

\* str(len(db) + 1)
next_id(db) == ToString(Cardinality(DOMAIN db) + 1)

\* POST /api/v1/users
create_user(auth_header, data) ==
  LET user_id == next_id(users_db)
      new_user == [id |-> user_id, username |-> data.username, email |-> data.email,
                   role |-> dict_get(data, "role", "user"), created_at |-> "<now>"]
  IN  /\ IF require_auth(auth_header) # ""
           THEN /\ rest_last' = RestReply("create_user", 401, "", require_auth(auth_header))
                /\ UNCHANGED users_db
           ELSE IF "username" \notin DOMAIN data \/ "email" \notin DOMAIN data
             THEN /\ rest_last' = RestReply("create_user", 400, "",
                                            "Missing required fields: username and email")
                  /\ UNCHANGED users_db
             ELSE IF \E k \in DOMAIN users_db : users_db[k].username = data.username
               THEN /\ rest_last' = RestReply("create_user", 409, "",
                                              "Username already exists")
                    /\ UNCHANGED users_db
               ELSE /\ Cardinality(DOMAIN users_db) < MaxRecords
                    /\ users_db' = dict_set(users_db, user_id, new_user)
                    /\ rest_last' = RestReply("create_user", 201, user_id, "")
      /\ UNCHANGED <<now, gateway_vars, auth_vars, order_vars, chat_vars, products_db>>

\* DELETE /api/v1/users/<user_id>
delete_user(auth_header, user_id) ==
  /\ IF require_auth(auth_header) # ""
       THEN /\ rest_last' = RestReply("delete_user", 401, user_id, require_auth(auth_header))
            /\ UNCHANGED users_db
       ELSE IF user_id \notin DOMAIN users_db
         THEN /\ rest_last' = RestReply("delete_user", 404, user_id, "User not found")
              /\ UNCHANGED users_db
         ELSE /\ users_db' = dict_del(users_db, user_id)
              /\ rest_last' = RestReply("delete_user", 204, user_id, "")
  /\ UNCHANGED <<now, gateway_vars, auth_vars, order_vars, chat_vars, products_db>>

\* float(data['price']) of a price of a JSON body, given by its type and the
\* cents float() makes of it: numbers and numeric strings convert, other
\* strings raise ValueError and null raises TypeError.
float_raises(price) == price.type \in {"string", "null"}

ProductData ==
  {[name |-> "Mouse", price |-> [type |-> "numeric string", cents |-> 2500],
    category |-> "accessories", in_stock |-> FALSE],
   [name |-> "Mouse", price |-> [type |-> "number", cents |-> -100], category |-> "accessories"],
   [name |-> "Mouse", price |-> [type |-> "string", cents |-> 0], category |-> "accessories"],
   [name |-> "Mouse", category |-> "accessories"]}

\* POST /api/v1/products
create_product(auth_header, data) ==
  LET product_id == next_id(products_db)
      new_product == [id |-> product_id, name |-> data.name, price |-> data.price.cents,
                      category |-> data.category,
                      in_stock |-> dict_get(data, "in_stock", TRUE)]
  IN  /\ IF require_auth(auth_header) # ""
           THEN /\ rest_last' = RestReply("create_product", 401, "", require_auth(auth_header))
                /\ UNCHANGED products_db
           ELSE IF {"name", "price", "category"} \ DOMAIN data # {}
             THEN /\ rest_last' = RestReply("create_product", 400, "",
                                            "Missing required fields: name, price, and category")
                  /\ UNCHANGED products_db
             ELSE IF float_raises(data.price)
               THEN /\ rest_last' = RestReply("create_product", 400, "",
                                              "Price must be a number")
                    /\ UNCHANGED products_db
               ELSE IF data.price.cents < 0
                 THEN /\ rest_last' = RestReply("create_product", 400, "",
                                                "Price must be non-negative")
                      /\ UNCHANGED products_db
                 ELSE /\ Cardinality(DOMAIN products_db) < MaxRecords
                      /\ products_db' = dict_set(products_db, product_id, new_product)
                      /\ rest_last' = RestReply("create_product", 201, product_id, "")
      /\ UNCHANGED <<now, gateway_vars, auth_vars, order_vars, chat_vars, users_db>>

\* DELETE /api/v1/products/<product_id>
delete_product(auth_header, product_id) ==
  /\ IF require_auth(auth_header) # ""
       THEN /\ rest_last' = RestReply("delete_product", 401, product_id, require_auth(auth_header))
            /\ UNCHANGED products_db
       ELSE IF product_id \notin DOMAIN products_db
         THEN /\ rest_last' = RestReply("delete_product", 404, product_id,
                                        "Product not found")
              /\ UNCHANGED products_db
         ELSE /\ products_db' = dict_del(products_db, product_id)
              /\ rest_last' = RestReply("delete_product", 204, product_id, "")
  /\ UNCHANGED <<now, gateway_vars, auth_vars, order_vars, chat_vars, users_db>>

NextRest ==
  \/ \E auth_header \in AuthHeaders : \E data \in UserData : create_user(auth_header, data)
  \/ \E auth_header \in AuthHeaders : \E user_id \in RecordIds :
       delete_user(auth_header, user_id)
  \/ \E auth_header \in AuthHeaders : \E data \in ProductData :
       create_product(auth_header, data)
  \/ \E auth_header \in AuthHeaders : \E product_id \in RecordIds :
       delete_product(auth_header, product_id)

\* Callers creating and deleting users and products.
SpecRest == Init /\ [][NextRest]_vars

\* ========================== src/api_gateway/services/order_service.py
ORDER_STATUSES == {"pending", "processing", "shipped", "delivered", "cancelled"}

\* The JSON bodies of PUT /orders/<id>: one field or several, valid and not,
\* and the empty object.  The items are a list or a value of another type.
OrderData ==
  <<[status |-> "cancelled"],
    [status |-> "refunded"],
    [shipping_address |-> "789 Pine Rd"],
    [items |-> [type |-> "list", value |-> <<Item("5", 2, 1000)>>]],
    [status |-> "cancelled", items |-> [type |-> "list", value |-> << >>]],
    [shipping_address |-> "789 Pine Rd", items |-> [type |-> "string", value |-> << >>]],
    [status |-> "shipped", shipping_address |-> "789 Pine Rd",
     items |-> [type |-> "list", value |-> <<Item("5", 2, 1000), Item("6", 0, 500)>>]],
    [status |-> "refunded", shipping_address |-> "789 Pine Rd"],
    << >>>>

\* calculate_total
RECURSIVE calculate_total(_)
calculate_total(items) ==
  IF items = << >> THEN 0
  ELSE Head(items).quantity * Head(items).price + calculate_total(Tail(items))

\* not item.get('product_id') or not item.get('quantity') or not item.get('price')
item_incomplete(item) == item.product_id = "" \/ item.quantity = 0 \/ item.price = 0

\* not isinstance(items, list) or len(items) == 0
items_invalid(items) == items.type # "list" \/ Len(items.value) = 0

\* get_timestamp(): the time of the request, which no stored order carries.
get_timestamp == "<now>"

\* PUT /orders/<order_id>.  order = ORDERS[order_id] is the stored dict
\* itself, so each assignment to order changes the store at once.
update_order(order_id, data) ==
  LET order == ORDERS[order_id]
      has(key) == key \in DOMAIN data
      with_status == IF has("status") THEN [order EXCEPT !.status = data.status]
                     ELSE order
      with_address == IF has("shipping_address")
                        THEN [with_status EXCEPT !.shipping_address = data.shipping_address]
                        ELSE with_status
      with_items == IF has("items")
                      THEN [with_address EXCEPT !.items = data.items.value,
                                                !.total = calculate_total(data.items.value)]
                      ELSE with_address
      updated == [with_items EXCEPT !.updated_at = get_timestamp]
  IN  /\ IF order_id \notin DOMAIN ORDERS
           THEN /\ order_last' = OrderReply("update_order", 404, order_id, "Order not found")
                /\ UNCHANGED ORDERS
           ELSE IF DOMAIN data = {}
             THEN /\ order_last' = OrderReply("update_order", 400, order_id,
                                              "No data provided")
                  /\ UNCHANGED ORDERS
             ELSE IF has("status") /\ data.status \notin ORDER_STATUSES
               THEN /\ order_last' = OrderReply("update_order", 400, order_id,
                                                "Invalid status")
                    /\ UNCHANGED ORDERS
               ELSE IF has("items") /\ items_invalid(data.items)
                 THEN /\ order_last' = OrderReply("update_order", 400, order_id,
                                                  "Items must be a non-empty array")
                      /\ ORDERS' = [ORDERS EXCEPT ![order_id] = with_address]
                 ELSE IF has("items") /\ \E i \in DOMAIN data.items.value :
                                           item_incomplete(data.items.value[i])
                   THEN /\ order_last' =
                             OrderReply("update_order", 400, order_id,
                                        "Each item must have product_id, quantity, and price")
                        /\ ORDERS' = [ORDERS EXCEPT ![order_id] = with_address]
                   ELSE /\ order_last' = OrderReply("update_order", 200, order_id, "")
                        /\ ORDERS' = [ORDERS EXCEPT ![order_id] = updated]
      /\ UNCHANGED <<now, gateway_vars, auth_vars, rest_vars, chat_vars>>

\* The ids of the path: two stored orders and one that is not stored.
NextOrders ==
  \E order_id \in {"1", "3", "9"} : \E i \in DOMAIN OrderData : update_order(order_id, OrderData[i])

\* Callers updating orders.
SpecOrders == Init /\ [][NextOrders]_vars

\* ============================= src/websocket_integration/server/app.py
\* The handlers read request.sid, the session id of the socket the event came
\* from, as Flask-SocketIO handlers do with flask.request.  (The module
\* imports only Flask and render_template from flask; the model follows the
\* handlers with request bound to flask.request.)

\* The name each socket's user gives.
UsernameOf(sid) == IF sid = "sid1" THEN "ann" ELSE "ben"

\* The data of a join event: a username or none, a room or none.
JoinData ==
  {[username |-> "<sid's>"], [username |-> "<sid's>", room |-> "random"],
   [username |-> Missing, room |-> "random"]}

\* The data of a leave event: nothing, or the room to move to.
LeaveData == {[reason |-> "bye"], [room |-> "general"], [room |-> "random"]}

\* What strip() leaves of the text of a message event.
strip(text) == IF text = "   " THEN "" ELSE text

\* A message object (the timestamp is left out).
Message(type, content, username) ==
  [type |-> type, content |-> content, username |-> username]

\* get_room_users(room): the usernames of the active users whose room it is
\* (as a set: the order of the list is not modelled).
get_room_users(users, room) ==
  {users[sid].username : sid \in {x \in DOMAIN users : users[x].room = room}}

\* chat_history[room].append(message) followed by trim_history(room)
append_trimmed(history, room, message) ==
  LET appended == Append(history[room], message)
  IN  [history EXCEPT ![room] =
         IF Len(appended) > MAX_HISTORY
           THEN SubSeq(appended, Len(appended) - MAX_HISTORY + 1, Len(appended))
           ELSE appended]

\* @socketio.on('join')
handle_join(sid, data) ==
  LET username == IF data.username = Missing THEN Missing ELSE UsernameOf(sid)
      room == dict_get(data, "room", "general")
      users == dict_set(active_users, sid, [username |-> username, room |-> room])
      initialized == IF room \in DOMAIN chat_history THEN chat_history
                     ELSE dict_set(chat_history, room, << >>)
  IN  /\ IF username = Missing
           THEN /\ chat_last' = ChatResult("join", sid, "error", "", {},
                                           "Username is required")
                /\ UNCHANGED <<active_users, chat_history, socket_rooms>>
           ELSE /\ active_users' = users
                /\ socket_rooms' = [socket_rooms EXCEPT ![sid] = @ \cup {room}]
                /\ chat_history' =
                     append_trimmed(initialized, room,
                                    Message("system", <<username, " has joined the room">>,
                                            "System"))
                /\ chat_last' = ChatResult("join", sid, "user_joined", room,
                                           get_room_users(users, room), "")
      /\ UNCHANGED <<now, gateway_vars, auth_vars, rest_vars, order_vars>>

\* @socketio.on('leave').  user_data is the stored dict itself: the new room
\* is stored before the leave message is appended to the history of the old
\* one, and stays stored when that append raises KeyError.
handle_leave(sid, data) ==
  LET room == active_users[sid].room
      users == IF "room" \in DOMAIN data
                 THEN [active_users EXCEPT ![sid].room = data.room]
                 ELSE active_users
  IN  /\ IF sid \notin DOMAIN active_users
           THEN /\ chat_last' = ChatResult("leave", sid, "", "", {}, "")
                /\ UNCHANGED <<active_users, chat_history, socket_rooms>>
           ELSE /\ socket_rooms' = [socket_rooms EXCEPT ![sid] = @ \ {room}]
                /\ active_users' = users
                /\ IF room \notin DOMAIN chat_history
                     THEN /\ chat_last' = ChatResult("leave", sid, "", room, {}, "KeyError")
                          /\ UNCHANGED chat_history
                     ELSE /\ chat_history' =
                               append_trimmed(chat_history, room,
                                              Message("system",
                                                      <<active_users[sid].username,
                                                        " has left the room">>,
                                                      "System"))
                          /\ chat_last' = ChatResult("leave", sid, "user_left", room,
                                                     get_room_users(users, room), "")
      /\ UNCHANGED <<now, gateway_vars, auth_vars, rest_vars, order_vars>>

\* @socketio.on('message')
handle_message(sid, text) ==
  /\ IF sid \notin DOMAIN active_users
       THEN /\ chat_last' = ChatResult("message", sid, "error", "", {},
                                       "You must join a room first")
            /\ UNCHANGED chat_history
       ELSE IF strip(text) = ""
         THEN /\ chat_last' = ChatResult("message", sid, "", active_users[sid].room, {}, "")
              /\ UNCHANGED chat_history
         ELSE IF active_users[sid].room \notin DOMAIN chat_history
           THEN /\ chat_last' = ChatResult("message", sid, "", active_users[sid].room,
                                           {}, "KeyError")
                /\ UNCHANGED chat_history
           ELSE /\ chat_history' =
                     append_trimmed(chat_history, active_users[sid].room,
                                    Message("user", <<strip(text)>>,
                                            active_users[sid].username))
                /\ chat_last' = ChatResult("message", sid, "new_message",
                                           active_users[sid].room, {}, "")
  /\ UNCHANGED <<now, gateway_vars, auth_vars, rest_vars, order_vars, active_users,
                 socket_rooms>>

\* @socketio.on('disconnect'): the server takes the socket out of its rooms.
handle_disconnect(sid) ==
  /\ socket_rooms' = [socket_rooms EXCEPT ![sid] = {}]
  /\ IF sid \in DOMAIN active_users
       THEN /\ active_users' = dict_del(active_users, sid)
            /\ chat_last' = ChatResult("disconnect", sid, "user_left",
                                       active_users[sid].room,
                                       get_room_users(dict_del(active_users, sid),
                                                      active_users[sid].room), "")
       ELSE /\ chat_last' = ChatResult("disconnect", sid, "", "", {}, "")
            /\ UNCHANGED active_users
  /\ UNCHANGED <<now, gateway_vars, auth_vars, rest_vars, order_vars, chat_history>>

NextChat ==
  \/ \E sid \in Sids : \E data \in JoinData : handle_join(sid, data)
  \/ \E sid \in Sids : \E data \in LeaveData : handle_leave(sid, data)
  \/ \E sid \in Sids : \E text \in {"hi", "   "} : handle_message(sid, text)
  \/ \E sid \in Sids : handle_disconnect(sid)

\* The sockets of the chat server sending events.
SpecChat == Init /\ [][NextChat]_vars

\* ================================================================ claims
\* The proxy request handled last got past the API-key check.
RateCheckedLast == last.route = "proxy" /\ last.status # 401

\* The admissions of the client of the last request that lie in the trailing
\* window (now - RATE_LIMIT_WINDOW, now].
AdmittedInWindow ==
  IF last.api_key \in DOMAIN admitted
    THEN SelectSeq(admitted[last.api_key],
                   LAMBDA ts : ts > now - RATE_LIMIT_WINDOW /\ ts <= now)
    ELSE << >>

\* Those admitted before the last request (its own admission is the last one).
EarlierInWindow == Len(AdmittedInWindow) - (IF last.allowed THEN 1 ELSE 0)

\* C1: a rate-checked request is allowed exactly when fewer than
\* RATE_LIMIT_MAX_REQUESTS of its client's earlier admitted requests lie in
\* the trailing window that ends at the request; otherwise it is answered 429.
C1_Admission ==
  RateCheckedLast =>
    /\ last.allowed <=> EarlierInWindow < RATE_LIMIT_MAX_REQUESTS
    /\ last.allowed <=> last.status # 429

\* C1 witness: the request after RATE_LIMIT_MAX_REQUESTS admissions in one
\* window is rejected.
C1_Witness ==
  /\ RateCheckedLast
  /\ last.status = 429
  /\ EarlierInWindow = RATE_LIMIT_MAX_REQUESTS

\* C2: a client that was rejected and then sent nothing for RATE_LIMIT_WINDOW
\* seconds is allowed on its next request, and that access purges every
\* older timestamp from its window.
C2_Recovery ==
  (RateCheckedLast /\ last.prev_rejected /\ last.idle >= RATE_LIMIT_WINDOW) =>
    /\ last.allowed
    /\ last.status # 429
    /\ rate_limits[last.api_key] = <<now>>

\* C2 witness: a request admitted a full window after the client's rejection.
C2_Witness ==
  /\ RateCheckedLast
  /\ last.prev_rejected
  /\ last.idle >= RATE_LIMIT_WINDOW
  /\ last.allowed

\* C9: the retry_after of a 429 is the time until the oldest admission still
\* in the client's window leaves it, and lies in 1..RATE_LIMIT_WINDOW.
C9_RetryAfter ==
  (RateCheckedLast /\ last.status = 429) =>
    /\ last.retry_after = (Min(AdmittedInWindow) + RATE_LIMIT_WINDOW) - now
    /\ last.retry_after \in 1..RATE_LIMIT_WINDOW

\* C9 witness: a 429 whose retry_after is shorter than the window, the
\* oldest admission being already one second or more old.
C9_Witness ==
  /\ RateCheckedLast
  /\ last.status = 429
  /\ last.retry_after < RATE_LIMIT_WINDOW

\* The routes behind require_api_key.
KeyedRoutes == {"proxy", "cache_clear", "services", "rate_limits"}

\* C3: a request to the proxy route or an admin route with a missing or wrong
\* X-API-Key is answered 401 and changes neither the rate-limit windows nor
\* the cache, and calls no upstream.
C3_UnauthorizedNoEffect ==
  [][(last'.route \in KeyedRoutes /\ last'.api_key # API_KEY) =>
       /\ last'.status = 401
       /\ last'.stages = <<"api_key">>
       /\ ~last'.upstream
       /\ rate_limits' = rate_limits
       /\ cache' = cache]_vars

\* C3 witness: an unauthenticated cache clear answered 401 while the cache
\* holds an entry and a client has a window.
C3_Witness ==
  /\ last.route = "cache_clear"
  /\ last.api_key # API_KEY
  /\ last.status = 401
  /\ DOMAIN cache # {}
  /\ DOMAIN rate_limits # {}

\* The orders in which a proxy request can pass the dispatcher's stages.
StageOrders ==
  { <<"api_key">>,
    <<"api_key", "rate_limit">>,
    <<"api_key", "rate_limit", "cache_lookup">>,
    <<"api_key", "rate_limit", "cache_lookup", "forward">>,
    <<"api_key", "rate_limit", "forward">> }

\* C4: a proxy request passes the stages in the order API-key check,
\* rate-limit check, cache lookup (GET only), forwarding; one rejected with
\* 429 stops after the rate-limit check: no upstream call, the cache neither
\* read nor written.
C4_StageOrder ==
  [][last'.route = "proxy" =>
       /\ last'.stages \in StageOrders
       /\ (\E i \in DOMAIN last'.stages : last'.stages[i] = "cache_lookup")
            => last'.method = "GET"
       /\ last'.upstream
            => last'.stages[Len(last'.stages)] = "forward"
       /\ last'.status = 429 =>
            /\ last'.stages = <<"api_key", "rate_limit">>
            /\ ~last'.upstream
            /\ ~last'.cache_hit
            /\ ~last'.cache_stored
            /\ cache' = cache]_vars

\* C4 witness: a GET rejected with 429 while the cache holds a live entry
\* for its key.
C4_Witness ==
  /\ last.route = "proxy"
  /\ last.status = 429
  /\ last.method = "GET"
  /\ IsCacheHit(cache_get(cache,
                          get_cache_key(last.service, last.path, last.query_string),
                          now))

\* The cache key of the request handled last.
LastKey == get_cache_key(last.service, last.path, last.query_string)

\* The step handles an admitted GET of a registered service.
AdmittedGet ==
  /\ last'.route = "proxy"
  /\ last'.method = "GET"
  /\ last'.allowed
  /\ last'.service \in DOMAIN SERVICES

\* C5: after a 200 JSON answer to a GET, empty object or array included, a GET
\* with the same service, path and query inside the TTL and with no clear in
\* between returns the cached payload and calls no upstream.
C5_CacheHit ==
  [][(/\ AdmittedGet
      /\ LastKey' \in DOMAIN served
      /\ ~served[LastKey'].flushed
      /\ now < served[LastKey'].time + CACHE_TIMEOUT) =>
       /\ ~last'.upstream
       /\ last'.cache_hit
       /\ last'.status = 200
       /\ last'.payload = served[LastKey'].value]_vars

\* C6: an authenticated clear leaves the cache with no entry, and the next GET
\* for a key whose entry it flushed is forwarded upstream, not served from
\* the cache.
C6_CacheClear ==
  [][/\ (last'.route = "cache_clear" /\ last'.api_key = API_KEY)
          => DOMAIN cache' = {}
     /\ (/\ AdmittedGet
         /\ LastKey' \in DOMAIN served
         /\ served[LastKey'].flushed) =>
          /\ last'.upstream
          /\ ~last'.cache_hit]_vars

\* C6 witness: a GET forwarded for a key whose entry the last clear flushed.
C6_Witness ==
  /\ last.route = "proxy"
  /\ last.method = "GET"
  /\ last.after_clear
  /\ last.upstream

\* C7: a forwarded request whose upstream call fails is answered 503 with a
\* JSON error envelope {error, message}, whatever its method.
C7_UpstreamFailure ==
  (last.route = "proxy" /\ last.outcome = "exception") =>
    /\ last.status = 503
    /\ last.error = "Service unavailable"
    /\ last.has_message

\* C8: every response of the proxy route carries the three rate-limit headers.
C8_RateLimitHeaders ==
  last.route = "proxy" => RateLimitHeaders \subseteq last.headers

\* C10: a lookup made right after an entry was stored returns it; an entry is
\* served only while its TTL has not elapsed; a GET that is not served from
\* the cache is forwarded upstream.
C10_CacheTTL ==
  /\ (last.route = "proxy" /\ last.cache_stored) =>
       cache_get(cache, LastKey, now) = json_loads(last.data)
  /\ (last.route = "proxy" /\ last.cache_hit) =>
       /\ LastKey \in DOMAIN served
       /\ ~served[LastKey].flushed
       /\ now < served[LastKey].time + CACHE_TIMEOUT
       /\ last.payload = served[LastKey].value
  /\ \A key \in DOMAIN served :
       (~served[key].flushed /\ now >= served[key].time + CACHE_TIMEOUT) =>
         cache_get(cache, key, now) = None
  /\ (/\ last.route = "proxy"
      /\ last.method = "GET"
      /\ last.allowed
      /\ last.service \in DOMAIN SERVICES
      /\ ~last.cache_hit) => last.upstream

\* C10 witness: a GET forwarded upstream at or after the expiry of the entry
\* stored for its key.
C10_Witness ==
  /\ last.route = "proxy"
  /\ last.method = "GET"
  /\ last.upstream
  /\ LastKey \in DOMAIN served
  /\ ~served[LastKey].flushed
  /\ now >= served[LastKey].time + CACHE_TIMEOUT

\* C11: two GETs of one service and path whose query strings hold the same
\* parameters in a different order derive the same cache key: no two cache
\* entries differ only in the order of the parameters.
C11_KeyDeterminism ==
  (last.route = "proxy" /\ last.method = "GET") =>
    \A key \in DOMAIN cache :
      (/\ key[1] = last.service
       /\ key[2] = last.path
       /\ query_params(key[3]) = query_params(last.query_string)) =>
        key = LastKey

\* C13: a proxy request looks the cache up, is served from it or changes it
\* only if it is a GET, and it stores an entry only when the upstream was
\* called and answered with a 2xx status.
C13_Cacheability ==
  [][last'.route = "proxy" =>
       /\ (\/ cache' # cache
           \/ last'.cache_stored
           \/ last'.cache_hit
           \/ \E i \in DOMAIN last'.stages : last'.stages[i] = "cache_lookup")
          => last'.method = "GET"
       /\ (cache' # cache \/ last'.cache_stored)
          => /\ last'.upstream
             /\ last'.outcome = "response"
             /\ last'.status \in 200..299]_vars

\* C13 witness: a GET whose entry has expired is forwarded and answered 500;
\* the entry stays as it was.
C13_Witness ==
  /\ last.route = "proxy"
  /\ last.method = "GET"
  /\ last.upstream
  /\ last.status = 500
  /\ ~last.cache_stored
  /\ LastKey \in DOMAIN cache

\* C17: an admitted request for a service that is not in SERVICES is answered
\* 404 whatever its method, without an upstream call, a cache lookup or a
\* change of the cache.
C17_ServiceNotFound ==
  [][(/\ last'.route = "proxy"
      /\ last'.allowed
      /\ last'.service \notin DOMAIN SERVICES)
     => /\ last'.status = 404
        /\ last'.error = "Service not found"
        /\ ~last'.upstream
        /\ last'.stages = <<"api_key", "rate_limit">>
        /\ ~last'.cache_hit
        /\ ~last'.cache_stored
        /\ cache' = cache]_vars

\* C12: a GET is served from the cache only the answer to a request that
\* carried the same Authorization (the key depends on the selected headers).
C12_KeyHeaders ==
  (last.route = "proxy" /\ last.cache_hit) =>
    HeaderValue(last.inbound, "Authorization")
      = HeaderValue(cached_for[LastKey], "Authorization")

\* C14: the upstream request carries X-Gateway-Source and, of the request's
\* headers, only those on the method's allow-list, with their values; the
\* response gets from the upstream only Content-Type, Content-Length,
\* Content-Language and ETag.
C14_HeaderAllowList ==
  last.route = "proxy" =>
    /\ \A h \in DOMAIN last.sent :
         \/ h = "X-Gateway-Source" /\ last.sent[h] = "api-gateway"
         \/ /\ h \in ForwardedHeaders(last.method)
            /\ h \in DOMAIN last.inbound
            /\ last.sent[h] = last.inbound[h]
    /\ "X-API-Key" \notin DOMAIN last.sent
    /\ \A h \in DOMAIN last.copied :
         /\ h \in CopiedHeaders
         /\ \/ h \in DOMAIN last.answered /\ last.copied[h] = last.answered[h]
            \/ h = "Content-Type" /\ h \notin DOMAIN last.answered

\* C14 witness: a request with X-API-Key, Authorization and a cookie is
\* forwarded with its Authorization, and the upstream's answer, which sets a
\* cookie, comes back with the ETag.
C14_Witness ==
  /\ last.route = "proxy"
  /\ last.upstream
  /\ {"X-API-Key", "Cookie", "Authorization"} \subseteq DOMAIN last.inbound
  /\ "Authorization" \in DOMAIN last.sent
  /\ "Set-Cookie" \in DOMAIN last.answered
  /\ "ETag" \in DOMAIN last.copied

\* The last request was a GET the upstream answered 200 with a body that
\* json.loads does not parse.
MalformedAnswer ==
  /\ last.route = "proxy"
  /\ last.method = "GET"
  /\ last.outcome = "response"
  /\ last.upstream_status = 200
  /\ ~(utf8_decodable(last.upstream_body) /\ json_decodable(last.upstream_body))

\* C18: a GET the upstream answers 200 with an unparseable body stores no
\* cache entry and is answered with the upstream's status and body.
C18_MalformedBody ==
  MalformedAnswer =>
    /\ ~last.cache_stored
    /\ last.status = last.upstream_status
    /\ last.data = last.upstream_body

\* The text case of C18: an unparseable body that is valid UTF-8 is passed
\* through.
C18_TextBody ==
  (MalformedAnswer /\ utf8_decodable(last.upstream_body)) =>
    /\ ~last.cache_stored
    /\ last.status = last.upstream_status
    /\ last.data = last.upstream_body

\* The last request was admitted and not served from the cache: the view had
\* to resolve its service.
Resolving ==
  /\ last.route = "proxy"
  /\ last.allowed
  /\ ~last.cache_hit

\* C15 as stated: the upstream call goes only to a registered endpoint that
\* is healthy, and no call is made when every endpoint of the service is
\* unhealthy.
C15_HealthyOnly ==
  Resolving =>
    /\ last.upstream => last.url \in Endpoints(last.service) \ unhealthy
    /\ Endpoints(last.service) \subseteq unhealthy => ~last.upstream

\* C15 amended: the upstream call goes to an endpoint registered for the
\* service, whatever its health, and none is resolved only for a service
\* without registered endpoints.
C15_RegisteredOnly ==
  Resolving =>
    /\ last.upstream => last.url \in Endpoints(last.service)
    /\ last.upstream <=> Endpoints(last.service) # {}

\* C15 witness: the call went to an unhealthy endpoint while a healthy one
\* was registered.
C15_Witness ==
  /\ Resolving
  /\ last.upstream
  /\ last.url \in unhealthy
  /\ Endpoints(last.service) \ unhealthy # {}

\* C16: a request for a registered service none of whose endpoints is healthy
\* is answered 503 without an upstream call, whatever its method.
C16_NoUsableEndpoint ==
  (/\ Resolving
   /\ last.service \in DOMAIN SERVICES
   /\ Endpoints(last.service) \subseteq unhealthy)
  => /\ last.status = 503
     /\ last.error = "Service unavailable"
     /\ ~last.upstream

\* The timestamps of a list that lie in the trailing window that ends now.
InWindow(timestamps) == SelectSeq(timestamps, LAMBDA ts : ts > now - RATE_LIMIT_WINDOW)

\* C20: under every interleaving of the threads, one thread at a time is
\* between the purge and the append; the accepted requests of a client in
\* the trailing window never exceed RATE_LIMIT_MAX_REQUESTS, and each of
\* them has its timestamp in the client's window.
C20_AtomicWindow ==
  /\ \A w1, w2 \in Workers :
       (/\ workers[w1].pc \in {"purge", "check", "append"}
        /\ workers[w2].pc \in {"purge", "check", "append"}) => w1 = w2
  /\ \A c \in DOMAIN admitted :
       /\ Len(InWindow(admitted[c])) <= RATE_LIMIT_MAX_REQUESTS
       /\ c \in DOMAIN rate_limits
       /\ InWindow(rate_limits[c]) = InWindow(admitted[c])

\* C20 witness: the window is full while one thread waits for the lock and
\* the other holds it.
C20_Witness ==
  /\ WorkerClient \in DOMAIN admitted
  /\ Len(InWindow(admitted[WorkerClient])) = RATE_LIMIT_MAX_REQUESTS
  /\ \E w1, w2 \in Workers :
       /\ workers[w1].pc = "acquire"
       /\ workers[w2].pc = "check"
       /\ lock = w2

\* C19: an upstream call that is pending was issued with a bounded timeout.
C19_BoundedWait ==
  \A w \in Workers :
    workers[w].pc = "waiting" => workers[w].timeout # NoTimeout

\* The window rl stores for a client (empty when the client has none).
WindowOf(rl, client_id) ==
  IF client_id \in DOMAIN rl THEN rl[client_id] ELSE << >>

\* The part of the client's stored window that is inside the trailing window
\* ending now.
LiveWindowOf(client_id) == InWindow(WindowOf(rate_limits, client_id))

\* C21 as stated: in every state every stored timestamp lies within
\* [now - RATE_LIMIT_WINDOW, now].
C21_WindowInvariant ==
  \A c \in DOMAIN rate_limits : \A i \in DOMAIN rate_limits[c] :
    /\ rate_limits[c][i] >= now - RATE_LIMIT_WINDOW
    /\ rate_limits[c][i] <= now

\* C21 amended: no stored timestamp lies in the future; right after rate_limit
\* has accessed a client's window every timestamp of that window lies within
\* (now - RATE_LIMIT_WINDOW, now]; the rate-limits report removes nothing.
C21_PurgedOnAccess ==
  [][/\ \A c \in DOMAIN rate_limits' : \A i \in DOMAIN rate_limits'[c] :
          rate_limits'[c][i] <= now'
     /\ (last'.route = "proxy" /\ last'.status # 401) =>
          \A i \in DOMAIN rate_limits'[last'.api_key] :
            rate_limits'[last'.api_key][i] > now' - RATE_LIMIT_WINDOW
     /\ last'.route = "rate_limits" => rate_limits' = rate_limits]_vars

\* C21 witness: a client comes back after a full window: its stale
\* timestamps are gone, only the new one is stored.
C21_Witness ==
  /\ RateCheckedLast
  /\ last.allowed
  /\ last.idle >= RATE_LIMIT_WINDOW
  /\ rate_limits[last.api_key] = <<now>>

\* C22: a 429 appends nothing: the client's window afterwards is the part of
\* its window before the request that was inside the trailing window, so
\* the oldest timestamp, which decides when the client is allowed again,
\* stays.
C22_RejectedNotRecorded ==
  [][(last'.route = "proxy" /\ last'.status = 429) =>
       /\ WindowOf(rate_limits', last'.api_key) = LiveWindowOf(last'.api_key)
       /\ Len(WindowOf(rate_limits', last'.api_key)) = RATE_LIMIT_MAX_REQUESTS]_vars

\* C22 witness: a second rejection in a row.
C22_Witness ==
  /\ RateCheckedLast
  /\ last.status = 429
  /\ last.prev_rejected
  /\ last.idle = 0

\* C23: an admitted request appends its one timestamp to what was left of
\* the client's window, whatever the view then answers.
C23_QuotaConsumed ==
  [][(last'.route = "proxy" /\ last'.allowed) =>
       /\ WindowOf(rate_limits', last'.api_key) = Append(LiveWindowOf(last'.api_key), now)
       /\ last'.request_count = Len(LiveWindowOf(last'.api_key))]_vars

\* C23 witness: the request that takes the last unit of the quota is one
\* for an unknown service.
C23_Witness ==
  /\ RateCheckedLast
  /\ last.allowed
  /\ last.service \notin DOMAIN SERVICES
  /\ Len(rate_limits[last.api_key]) = RATE_LIMIT_MAX_REQUESTS

\* C23, the other outcomes: a cache hit and a failed upstream call take a
\* unit of the quota too.
C23_WitnessCacheHit ==
  /\ RateCheckedLast
  /\ last.allowed
  /\ last.cache_hit
  /\ Len(rate_limits[last.api_key]) = RATE_LIMIT_MAX_REQUESTS

C23_WitnessUpstreamFailure ==
  /\ RateCheckedLast
  /\ last.allowed
  /\ last.outcome = "exception"
  /\ Len(rate_limits[last.api_key]) = RATE_LIMIT_MAX_REQUESTS

\* ------------------------------------------------------------------ C24
\* What a caller sees of an answer of forgot_password.
Visible(reply) ==
  [status |-> reply.status, message |-> reply.message, fields |-> reply.fields]

\* C24: forgot_password does not reveal whether an email belongs to an
\* account: whatever email is given, the answer has the status, the message
\* and the fields of the answer to an email of no account.
C24_NoEnumeration ==
  (auth_last.route = "forgot_password" /\ auth_last.input.email # Missing) =>
    Visible(auth_last) = forgot_password_response(FALSE)

\* ------------------------------------------------------------------ C25
\* C25: reset tokens are single-use and time-limited.  In every call of
\* reset_password: a password changes only through a stored token that has
\* not expired and has changed no password before; a token presented after
\* its expiry changes nothing and is answered with 400, and one rejected as
\* expired is removed; a token that was used or rejected as expired is
\* answered with 400 and leaves USERS unchanged; and no token ever changes a
\* password twice or stays in RESET_TOKENS once used or rejected as expired.
C25_SingleUse ==
  [][auth_last'.route = "reset_password" =>
       LET token == auth_last'.input.token
           known == token \in DOMAIN reset_log
       IN  /\ USERS' # USERS =>
                /\ token \in DOMAIN RESET_TOKENS
                /\ now <= RESET_TOKENS[token].expiry
                /\ reset_log[token].changes = 0
                /\ auth_last'.status = 200
           /\ (token \in DOMAIN RESET_TOKENS /\ now > RESET_TOKENS[token].expiry) =>
                /\ USERS' = USERS
                /\ auth_last'.status = 400
           /\ auth_last'.error = "Token expired" => token \notin DOMAIN RESET_TOKENS'
           /\ (known /\ reset_log[token].retired) =>
                /\ USERS' = USERS
                /\ auth_last'.status = 400
                /\ RESET_TOKENS' = RESET_TOKENS
           /\ auth_last'.status = 200 => token \notin DOMAIN RESET_TOKENS'
           /\ \A t \in DOMAIN reset_log' :
                /\ reset_log'[t].changes <= 1
                /\ reset_log'[t].retired => t \notin DOMAIN RESET_TOKENS']_vars

\* A token that has changed a password is presented again and refused.
C25_Witness ==
  /\ auth_last.route = "reset_password"
  /\ auth_last.status = 400
  /\ auth_last.input.token \in DOMAIN reset_log
  /\ reset_log[auth_last.input.token].changes = 1
  /\ auth_last.input.new_password # Missing

\* A token presented after its expiry is refused and removed.
C25_WitnessExpired ==
  /\ auth_last.route = "reset_password"
  /\ auth_last.error = "Token expired"
  /\ auth_last.input.token \notin DOMAIN RESET_TOKENS
  /\ USERS = InitialUsers

\* ------------------------------------------------------------------ C26
\* C26: a create_user answered with 201 adds a record under an id that was
\* no key of users_db, leaves every stored user as it was and makes the
\* users one more; likewise create_product for products_db.
C26_CreateNeverOverwrites ==
  [][/\ (rest_last'.route = "create_user" /\ rest_last'.status = 201) =>
          /\ rest_last'.id \notin DOMAIN users_db
          /\ \A id \in DOMAIN users_db :
               id \in DOMAIN users_db' /\ users_db'[id] = users_db[id]
          /\ Cardinality(DOMAIN users_db') = Cardinality(DOMAIN users_db) + 1
     /\ (rest_last'.route = "create_product" /\ rest_last'.status = 201) =>
          /\ rest_last'.id \notin DOMAIN products_db
          /\ \A id \in DOMAIN products_db :
               id \in DOMAIN products_db' /\ products_db'[id] = products_db[id]
          /\ Cardinality(DOMAIN products_db') = Cardinality(DOMAIN products_db) + 1]_vars

\* ------------------------------------------------------------------ C27
\* C27: a PUT /orders/<id> answered with 400 or 404 leaves every stored
\* order as it was, in every field.
C27_AllOrNothing ==
  [][(order_last'.route = "update_order" /\ order_last'.status \in {400, 404}) =>
       ORDERS' = ORDERS]_vars

C30_SessionInvariant ==
  /\ "user_id" \in DOMAIN session =>
       /\ session["user_id"] \in DOMAIN USERS
       /\ "user_role" \in DOMAIN session
       /\ session["user_role"] = USERS[session["user_id"]].role
  /\ auth_last.route = "session_profile" => auth_last.status \in {200, 401}

====
